---- MODULE Spec2Model ----
(***************************************************************************)
(* Model of src/main.py: a Flask service that resolves a time window,      *)
(* dispatches '|'-separated Prometheus range queries and either plots the  *)
(* returned series (/graph) or aggregates them per label into descriptive  *)
(* statistics (/stats).                                                    *)
(*                                                                         *)
(* Conventions                                                             *)
(*  - A Python str that the code inspects character by character (a time   *)
(*    token, a sub-query) is a tuple of one-character strings.             *)
(*  - Instants and durations are whole seconds (UTC, since the epoch).     *)
(*  - A float sample is F(x) for an integer x, or NaN; exact results of    *)
(*    the statistics module are reduced fractions [num, den].              *)
(*  - A Python exception is a result record with ok = FALSE.               *)
(***************************************************************************)
EXTENDS Integers, Sequences, FiniteSets, Bags, TLC

(***************************************************************************)
(* Bounds of the model.                                                    *)
(***************************************************************************)
MaxTokLen == 4
MaxTick == 1
MaxDuration == 700
NowInit == 5000
MaxQueries == 2
MaxSeriesPerQuery == 1
MaxMetricKeys == 3
MaxMerged == 3

(***************************************************************************)
(* Characters.                                                             *)
(***************************************************************************)
Digits == {"0", "1", "2", "3", "4", "5", "6", "7", "8", "9"}

Letters ==
  {"a", "b", "c", "d", "e", "f", "g", "h", "i", "j", "k", "l", "m",
   "n", "o", "p", "q", "r", "s", "t", "u", "v", "w", "x", "y", "z",
   "A", "B", "C", "D", "E", "F", "G", "H", "I", "J", "K", "L", "M",
   "N", "O", "P", "Q", "R", "S", "T", "U", "V", "W", "X", "Y", "Z"}

DigitValue(c) ==
  CASE c = "0" -> 0 [] c = "1" -> 1 [] c = "2" -> 2 [] c = "3" -> 3
    [] c = "4" -> 4 [] c = "5" -> 5 [] c = "6" -> 6 [] c = "7" -> 7
    [] c = "8" -> 8 [] c = "9" -> 9

\* int(s) for a non-empty string of decimal digits.
RECURSIVE ToInt(_)
ToInt(ds) ==
  IF ds = <<>> THEN 0
  ELSE 10 * ToInt(SubSeq(ds, 1, Len(ds) - 1)) + DigitValue(ds[Len(ds)])

\* Length of the longest prefix of s made of characters of class.
RECURSIVE PrefixLen(_, _)
PrefixLen(s, class) ==
  IF s = <<>> \/ Head(s) \notin class THEN 0
  ELSE 1 + PrefixLen(Tail(s), class)

(***************************************************************************)
(* parse_time (main.py 17-37).                                             *)
(***************************************************************************)
\* re.match(r'(\d+)([a-zA-Z]+)', value): anchored at the start of value
\* only; both groups are greedy and the two classes are disjoint, so the
\* groups are the maximal digit run and the maximal letter run after it.
ReMatch(value) ==
  LET nd   == PrefixLen(value, Digits)
      rest == SubSeq(value, nd + 1, Len(value))
      nl   == PrefixLen(rest, Letters)
  IN  IF nd = 0 \/ nl = 0
      THEN [matched |-> FALSE, g1 |-> <<>>, g2 |-> <<>>]
      ELSE [matched |-> TRUE, g1 |-> SubSeq(value, 1, nd),
            g2 |-> SubSeq(rest, 1, nl)]

SEC  == <<"s", "e", "c">>
MIN  == <<"m", "i", "n">>
HOUR == <<"h">>
DAY  == <<"d", "a", "y">>
YEAR == <<"y", "e", "a", "r">>

ValueError == [ok |-> FALSE, t |-> 0]
Ok(x) == [ok |-> TRUE, t |-> x]

\* The timedelta, in seconds, or ValueError.
parse_time(value) ==
  LET match == ReMatch(value) IN
  IF ~match.matched THEN ValueError
  ELSE LET amount == ToInt(match.g1)
           unit   == match.g2
       IN  IF unit = SEC THEN Ok(amount)
           ELSE IF unit = MIN THEN Ok(amount * 60)
           ELSE IF unit = HOUR THEN Ok(amount * 3600)
           ELSE IF unit = DAY THEN Ok(amount * 86400)
           ELSE IF unit = YEAR THEN Ok(amount * 365 * 86400)
           ELSE ValueError

(***************************************************************************)
(* parse_time_input (main.py 39-56).                                       *)
(***************************************************************************)
NOW == <<"n", "o", "w">>

\* Two date-time literals datetime.fromisoformat accepts: one without and
\* one with a UTC offset.
ISO_NAIVE ==
  <<"1", "9", "7", "0", "-", "0", "1", "-", "0", "1", "T",
    "0", "1", ":", "2", "0", ":", "0", "0">>
ISO_OFFSET ==
  <<"1", "9", "7", "0", "-", "0", "1", "-", "0", "1", "T",
    "0", "2", ":", "2", "0", ":", "0", "0", "+", "0", "1", ":", "0", "0">>

\* datetime.fromisoformat on the literals above: wall-clock seconds since
\* midnight 1970-01-01, and the offset when one is written (tz = TRUE).
\* Every other token of the model is shorter than a date and is rejected.
FromIsoFormat(value) ==
  IF value = ISO_NAIVE
  THEN [ok |-> TRUE, wall |-> 4800, tz |-> FALSE, offset |-> 0]
  ELSE IF value = ISO_OFFSET
  THEN [ok |-> TRUE, wall |-> 8400, tz |-> TRUE, offset |-> 3600]
  ELSE [ok |-> FALSE, wall |-> 0, tz |-> FALSE, offset |-> 0]

\* clock is what datetime.now(timezone.utc) returns during this call.
parse_time_input(value, clock) ==
  IF value = NOW THEN Ok(clock)
  ELSE LET dt == FromIsoFormat(value) IN
       IF dt.ok
       THEN IF ~dt.tz THEN Ok(dt.wall) ELSE Ok(dt.wall - dt.offset)
       ELSE LET delta == parse_time(value) IN
            IF delta.ok THEN Ok(clock - delta.t) ELSE ValueError

(***************************************************************************)
(* calculate_step (main.py 58-61).                                         *)
(***************************************************************************)
\* The same with a minimum step of 1s.
calculate_step_min1(start_time, end_time, desired_points) ==
  LET total_seconds == end_time - start_time
      atLeast1      == total_seconds >= desired_points
  IN  [n |-> IF atLeast1 THEN total_seconds \div desired_points ELSE 1,
       unit |-> "s"]

\* total_seconds / desired_points is kept as the exact fraction
\* total_seconds / desired_points; max(.., 2) compares it with 2; int()
\* truncates towards zero; the f-string appends 's'.
calculate_step(start_time, end_time, desired_points) ==
  LET total_seconds == end_time - start_time
      atLeast2      == total_seconds >= 2 * desired_points
      truncated     == IF total_seconds >= 0
                       THEN total_seconds \div desired_points
                       ELSE -((-total_seconds) \div desired_points)
  IN  [n |-> IF atLeast2 THEN truncated ELSE 2, unit |-> "s"]

DesiredPoints == 100

(***************************************************************************)
(* Request strings.  str.split('|') maps a string one-to-one onto the      *)
(* non-empty list of its '|'-free segments, so a '|'-separated argument is *)
(* kept as that list: [present |-> FALSE] is a missing argument (None)     *)
(* and a single empty segment is the empty string.                         *)
(***************************************************************************)
Absent == [present |-> FALSE, segs |-> <<>>]
Arg(segs) == [present |-> TRUE, segs |-> segs]

\* Python truthiness of an optional string whose empty segment is empty.
Truthy(arg, empty) == arg.present /\ arg.segs # <<empty>>

\* str.strip() on a tuple of characters (whitespace is the space here).
RECURSIVE LStrip(_)
LStrip(s) == IF s # <<>> /\ Head(s) = " " THEN LStrip(Tail(s)) ELSE s

RECURSIVE RStrip(_)
RStrip(s) ==
  IF s # <<>> /\ s[Len(s)] = " " THEN RStrip(SubSeq(s, 1, Len(s) - 1)) ELSE s

Strip(s) == RStrip(LStrip(s))

\* label_args[i] if len(label_args) > i else None   (i counts from 1 here)
NoLabelArg == [some |-> FALSE, key |-> ""]
LabelArgAt(label_args, k) ==
  IF Len(label_args) >= k THEN [some |-> TRUE, key |-> label_args[k]]
  ELSE NoLabelArg

(***************************************************************************)
(* Series.  series['metric'] is a dict in the order the backend reported   *)
(* its keys: a sequence of [k, v] entries with distinct keys.              *)
(* series['values'] keeps the float of each sample; the timestamps are     *)
(* only handed to the renderer.                                            *)
(***************************************************************************)
NaN == [nan |-> TRUE, x |-> 0]
F(x) == [nan |-> FALSE, x |-> x]

HasKey(metric, key) == \E n \in DOMAIN metric : metric[n].k = key
GetValue(metric, key) == metric[CHOOSE n \in DOMAIN metric : metric[n].k = key].v

\* `label_arg and label_arg in series['metric']` (main.py 122, 228)
ExplicitApplies(metric, label_arg) ==
  label_arg.some /\ label_arg.key # "" /\ HasKey(metric, label_arg.key)

\* for key in series['metric']: if key not in ['instance', 'job']: ... break
RECURSIVE FirstUnreserved(_)
FirstUnreserved(metric) ==
  IF metric = <<>> THEN "Unknown"
  ELSE IF Head(metric).k \notin {"instance", "job"} THEN Head(metric).v
  ELSE FirstUnreserved(Tail(metric))

\* The same loop without its break: the last such key wins.
RECURSIVE LastUnreserved(_)
LastUnreserved(metric) ==
  IF metric = <<>> THEN "Unknown"
  ELSE IF metric[Len(metric)].k \notin {"instance", "job"}
       THEN metric[Len(metric)].v
  ELSE LastUnreserved(SubSeq(metric, 1, Len(metric) - 1))

graph_label_nobreak(metric, label_arg) ==
  IF ExplicitApplies(metric, label_arg) THEN GetValue(metric, label_arg.key)
  ELSE LastUnreserved(metric)

\* Label of a series in graph() (main.py 121-130).
graph_label(metric, label_arg) ==
  IF ExplicitApplies(metric, label_arg) THEN GetValue(metric, label_arg.key)
  ELSE FirstUnreserved(metric)

\* Label of a series in stats() (main.py 227-236).
stats_label(metric, label_arg) ==
  IF ExplicitApplies(metric, label_arg) THEN GetValue(metric, label_arg.key)
  ELSE IF HasKey(metric, "instance") THEN GetValue(metric, "instance")
  ELSE IF HasKey(metric, "job") THEN GetValue(metric, "job")
  ELSE "Unknown"

(***************************************************************************)
(* Exact arithmetic for the statistics module.                             *)
(***************************************************************************)
Abs(x) == IF x < 0 THEN -x ELSE x

RECURSIVE GCD(_, _)
GCD(a, b) == IF b = 0 THEN a ELSE GCD(b, a % b)

\* The fraction n/d (d > 0) in lowest terms.
Rat(n, d) ==
  LET g == GCD(Abs(n), d) IN [num |-> n \div g, den |-> d \div g]

RatSub(p, q) == Rat(p.num * q.den - q.num * p.den, p.den * q.den)

RECURSIVE SumSeq(_)
SumSeq(s) == IF s = <<>> THEN 0 ELSE Head(s) + SumSeq(Tail(s))

RECURSIVE Insert(_, _)
Insert(x, s) ==
  IF s = <<>> THEN <<x>>
  ELSE IF x < Head(s) THEN <<x>> \o s
  ELSE <<Head(s)>> \o Insert(x, Tail(s))

\* sorted(data)
RECURSIVE Sorted(_)
Sorted(s) == IF s = <<>> THEN <<>> ELSE Insert(Head(s), Sorted(Tail(s)))

SeqMin(s) == Sorted(s)[1]
SeqMax(s) == Sorted(s)[Len(s)]

Occurrences(x, s) == Cardinality({n \in DOMAIN s : s[n] = x})

\* [v for v in values if not math.isnan(v)]   (main.py 255)
RECURSIVE DropNaN(_)
DropNaN(values) ==
  IF values = <<>> THEN <<>>
  ELSE IF Head(values).nan THEN DropNaN(Tail(values))
  ELSE <<Head(values).x>> \o DropNaN(Tail(values))

(***************************************************************************)
(* The statistics of one label (main.py 250-303), for data = the label's   *)
(* values without NaN, data non-empty.                                     *)
(***************************************************************************)
\* statistics.mean
Mean(data) == Rat(SumSeq(data), Len(data))

\* statistics.median: the middle element, or the mean of the two middle
\* elements.
Median(data) ==
  LET srt == Sorted(data)
      n   == Len(data)
  IN  IF n % 2 = 1 THEN Rat(srt[(n \div 2) + 1], 1)
      ELSE Rat(srt[n \div 2] + srt[(n \div 2) + 1], 2)

\* statistics.mode as the runtime that provides statistics.quantiles has it
\* (CPython 3.8 and later): Counter(iter(data)).most_common(1), the first
\* value, in the order met, among those with the highest count.  It raises
\* StatisticsError for empty data only, so the handler's except branch
\* (main.py 267-268) is never taken for non-empty data.
Mode(data) ==
  LET top   == {n \in DOMAIN data :
                  \A m \in DOMAIN data :
                     Occurrences(data[m], data) <= Occurrences(data[n], data)}
      first == CHOOSE n \in top : \A m \in top : n <= m
  IN  [some |-> TRUE, x |-> data[first]]

\* statistics.variance (n - 1 denominator), len(data) > 1:
\* sum((x - mean)^2) / (n - 1) = (n * sum(x^2) - sum(x)^2) / (n * (n - 1)).
Variance(data) ==
  LET n  == Len(data)
      s1 == SumSeq(data)
      s2 == SumSeq([k \in DOMAIN data |-> data[k] * data[k]])
  IN  Rat(n * s2 - s1 * s1, n * (n - 1))

Zero == Rat(0, 1)

\* statistics.mean([abs(x - mean_value) for x in values])
\*   = sum(|n * x - sum|) / n^2.
AvgDeviation(data) ==
  LET n  == Len(data)
      s1 == SumSeq(data)
  IN  Rat(SumSeq([k \in DOMAIN data |-> Abs(n * data[k] - s1)]), n * n)

\* statistics.quantiles(data, n=4, method='inclusive'), len(data) >= 2:
\* m = len - 1; j, delta = divmod(i * m, 4);
\* (data[j] * (4 - delta) + data[j + 1] * delta) / 4  for i = 1, 2, 3.
Quantiles(data) ==
  LET srt == Sorted(data)
      m   == Len(data) - 1
  IN  [q \in 1..3 |->
         LET j     == (q * m) \div 4
             delta == (q * m) % 4
         IN  Rat(srt[j + 1] * (4 - delta) + srt[j + 2] * delta, 4)]

\* With a single data point statistics.quantiles raises StatisticsError
\* ('must have at least two data points') up to CPython 3.12 and returns
\* the point n - 1 times from CPython 3.13 on.
QuantilesOrError(data, rejects_single_point) ==
  IF Len(data) >= 2 THEN [ok |-> TRUE, q |-> Quantiles(data)]
  ELSE IF rejects_single_point THEN [ok |-> FALSE, q |-> <<>>]
  ELSE [ok |-> TRUE, q |-> [q \in 1..3 |-> Rat(data[1], 1)]]

\* One pass of the loop body at main.py 250-303 for the values of a label:
\* [ok |-> FALSE] when the label is skipped (a continue), the entry of
\* result otherwise.  stdev is kept as the number whose square root it is.
ComputeStats(values, rejects_single_point) ==
  IF values = <<>> THEN [ok |-> FALSE]
  ELSE LET data == DropNaN(values) IN
       IF data = <<>> THEN [ok |-> FALSE]
       ELSE LET quartiles == QuantilesOrError(data, rejects_single_point) IN
            IF ~quartiles.ok THEN [ok |-> FALSE]
            ELSE [ok |-> TRUE,
                  stats |->
                    [mean              |-> Mean(data),
                     median            |-> Median(data),
                     mode              |-> Mode(data),
                     stdev             |-> [sqrt_of |-> IF Len(data) > 1
                                                        THEN Variance(data)
                                                        ELSE Zero],
                     variance          |-> IF Len(data) > 1
                                           THEN Variance(data) ELSE Zero,
                     min               |-> SeqMin(data),
                     max               |-> SeqMax(data),
                     count             |-> Len(data),
                     sum               |-> SumSeq(data),
                     range             |-> SeqMax(data) - SeqMin(data),
                     average_deviation |-> AvgDeviation(data),
                     percentile_25     |-> quartiles.q[1],
                     percentile_50     |-> quartiles.q[2],
                     percentile_75     |-> quartiles.q[3],
                     iqr               |-> RatSub(quartiles.q[3],
                                                  quartiles.q[1])]]

\* result: one entry per label of label_data that is not skipped, in the
\* order of label_data (main.py 249-303).
RECURSIVE ComputeResult(_, _)
ComputeResult(ld, rejects_single_point) ==
  IF ld = <<>> THEN <<>>
  ELSE LET r == ComputeStats(Head(ld).values, rejects_single_point) IN
       (IF r.ok THEN <<[label |-> Head(ld).label, stats |-> r.stats]>>
        ELSE <<>>) \o ComputeResult(Tail(ld), rejects_single_point)

(***************************************************************************)
(* State.                                                                  *)
(***************************************************************************)
VARIABLES
  handler,          \* "graph" or "stats": the route of the request
  pc,               \* "start", "loop", "done": position in the handler
  now,              \* the wall clock, datetime.now(timezone.utc)
  rejects_single,   \* the runtime's statistics.quantiles rejects one point
  backend,          \* the series the metrics backend can report
  query_string, label_arg_string, start_input, end_input,  \* request.args
  start_time, end_time, step,
  i,                \* index of the next sub-query, from 1
  calls,            \* the calls made to prom.custom_query_range, in order
  resolved,         \* the label given to each series met, in order
  label_data,       \* stats(): label -> values, in insertion order
  plots,            \* graph(): the ax.plot calls, in order
  result,           \* stats(): label -> statistics, in insertion order
  response,         \* [status, kind] of the HTTP response
  value, parsed, parse_pc,            \* a lone parse_time_input call
  win_start, win_end, win_step, step_pc,  \* a lone calculate_step call
  batches, order, merged, left, right \* merging in two dispatch orders

reqVars == <<handler, pc, now, rejects_single, backend, query_string,
             label_arg_string, start_input, end_input, start_time, end_time,
             step, i, calls, resolved, label_data, plots, result, response>>
parseVars == <<value, parsed, parse_pc>>
stepVars == <<win_start, win_end, win_step, step_pc>>
mergeVars == <<batches, order, merged, left, right>>
vars == <<reqVars, parseVars, stepVars, mergeVars>>

(***************************************************************************)
(* The loop bodies of the two handlers.                                    *)
(***************************************************************************)
HasLabel(ld, label) == \E n \in DOMAIN ld : ld[n].label = label

\* An assignment in place of the extend.
ExtendOverwrites(old, values) == values

\* label_data[label].extend(values)   (main.py 245)
Extend(old, values) == old \o values

\* stats(), main.py 226-245, for the series of one sub-query.
RECURSIVE StatsSeries(_, _, _)
StatsSeries(ld, label_arg, data) ==
  IF data = <<>> THEN ld
  ELSE LET series == Head(data)
           label  == stats_label(series.metric, label_arg)
           ld1    == IF HasLabel(ld, label) THEN ld
                     ELSE Append(ld, [label |-> label, values |-> <<>>])
           ld2    == [n \in DOMAIN ld1 |->
                        IF ld1[n].label = label
                        THEN [label  |-> label,
                              values |-> Extend(ld1[n].values, series.values)]
                        ELSE ld1[n]]
       IN  StatsSeries(ld2, label_arg, Tail(data))

\* graph(), main.py 117-136, for the series of one sub-query: a series with
\* fewer than two samples is not plotted.
RECURSIVE GraphSeries(_, _, _)
GraphSeries(pl, label_arg, data) ==
  IF data = <<>> THEN pl
  ELSE LET series == Head(data)
           label  == graph_label(series.metric, label_arg)
           pl1    == IF Len(series.values) < 2 THEN pl
                     ELSE Append(pl, [label |-> label,
                                      values |-> series.values])
       IN  GraphSeries(pl1, label_arg, Tail(data))

\* The labels computed while the series of one sub-query are processed.
Resolutions(route, label_arg, data) ==
  [n \in DOMAIN data |->
     [route     |-> route,
      metric    |-> data[n].metric,
      label_arg |-> label_arg,
      label     |-> IF route = "graph"
                    THEN graph_label(data[n].metric, label_arg)
                    ELSE stats_label(data[n].metric, label_arg)]]

(***************************************************************************)
(* The request.                                                            *)
(***************************************************************************)
queries == query_string.segs

\* label_arg_string.split('|') if label_arg_string else []
label_args == IF Truthy(label_arg_string, "") THEN label_arg_string.segs
              ELSE <<>>

\* The comparison the other way round.
RangeRejectedInverted(st, et) == st < et

\* `if start_time > end_time` (main.py 91, 200)
RangeRejected(st, et) == st > et

\* A try/except around the call that logs and goes on.
PropagatesNever(resp) == FALSE

\* An exception of prom.custom_query_range is caught by no handler inside
\* the loop: it leaves the loop for the except clause of the request
\* (main.py 177-179, 307-309).
Propagates(resp) == resp.kind = "raise"

\* A break in place of the continue.
AfterEmptyBreaks(k) == Len(query_string.segs) + 1

\* `if not data: ... continue` (main.py 112-114, 221-223)
AfterEmpty(k) == k + 1

NoResponse == [status |-> 0, kind |-> "none"]
Respond(status, kind) == [status |-> status, kind |-> kind]

\* What prom.custom_query_range can do: raise, or return a list of series
\* of the backend (the empty list when nothing matches).
RECURSIVE SeqsUpTo(_, _)
SeqsUpTo(S, n) ==
  IF n = 0 THEN {<<>>}
  ELSE LET shorter == SeqsUpTo(S, n - 1) IN
       shorter \cup {Append(s, x) : s \in shorter, x \in S}

Responses ==
  {[kind |-> "raise", data |-> <<>>]} \cup
  {[kind |-> IF d = <<>> THEN "empty" ELSE "data", data |-> d] :
     d \in SeqsUpTo(backend, MaxSeriesPerQuery)}

\* Lines 69-96 / 183-205: arguments, time window, step.
Validate ==
  /\ pc = "start"
  /\ UNCHANGED <<handler, rejects_single, backend, query_string,
                 label_arg_string, start_input, end_input, i, calls,
                 resolved, label_data, plots, result>>
  /\ UNCHANGED <<parseVars, stepVars, mergeVars>>
  /\ IF ~Truthy(query_string, <<>>)
     THEN /\ response' = Respond(200, "text")
          /\ pc' = "done"
          /\ UNCHANGED <<now, start_time, end_time, step>>
     ELSE \E tick \in 0..MaxTick :
            LET st == parse_time_input(start_input, now)
                et == parse_time_input(end_input, now + tick)
            IN  /\ now' = now + tick
                /\ IF ~st.ok \/ ~et.ok
                   THEN /\ response' = Respond(500, "error")
                        /\ pc' = "done"
                        /\ UNCHANGED <<start_time, end_time, step>>
                   ELSE /\ start_time' = st.t
                        /\ end_time' = et.t
                        /\ IF RangeRejected(st.t, et.t)
                           THEN /\ response' = Respond(400, "error")
                                /\ pc' = "done"
                                /\ UNCHANGED step
                           ELSE /\ step' = calculate_step(st.t, et.t,
                                                          DesiredPoints)
                                /\ pc' = "loop"
                                /\ UNCHANGED response

\* One iteration of `for i, query in enumerate(queries)`
\* (main.py 102-136 / 211-245).
Dispatch ==
  /\ pc = "loop"
  /\ i <= Len(queries)
  /\ UNCHANGED <<handler, now, rejects_single, backend, query_string,
                 label_arg_string, start_input, end_input, start_time,
                 end_time, step, result>>
  /\ UNCHANGED <<parseVars, stepVars, mergeVars>>
  /\ \E resp \in Responses :
       LET label_arg == LabelArgAt(label_args, i) IN
       /\ calls' = Append(calls, [query      |-> Strip(queries[i]),
                                  start_time |-> start_time,
                                  end_time   |-> end_time,
                                  step       |-> step,
                                  outcome    |-> resp.kind])
       /\ IF Propagates(resp)
          THEN /\ response' = Respond(500, "error")
               /\ pc' = "done"
               /\ UNCHANGED <<i, resolved, label_data, plots>>
          ELSE IF resp.data = <<>>
          THEN /\ i' = AfterEmpty(i)
               /\ UNCHANGED <<pc, response, resolved, label_data, plots>>
          ELSE /\ i' = i + 1
               /\ resolved' = resolved \o
                                Resolutions(handler, label_arg, resp.data)
               /\ IF handler = "stats"
                  THEN /\ label_data' = StatsSeries(label_data, label_arg,
                                                    resp.data)
                       /\ UNCHANGED plots
                  ELSE /\ plots' = GraphSeries(plots, label_arg, resp.data)
                       /\ UNCHANGED label_data
               /\ UNCHANGED <<pc, response>>

\* After the loop: the statistics per label (main.py 248-305) or the image
\* of the plotted series (main.py 138-176).
Finish ==
  /\ pc = "loop"
  /\ i > Len(queries)
  /\ pc' = "done"
  /\ IF handler = "stats"
     THEN /\ result' = ComputeResult(label_data, rejects_single)
          /\ response' = Respond(200, "json")
     ELSE /\ response' = Respond(200, "png")
          /\ UNCHANGED result
  /\ UNCHANGED <<handler, now, rejects_single, backend, query_string,
                 label_arg_string, start_input, end_input, start_time,
                 end_time, step, i, calls, resolved, label_data, plots>>
  /\ UNCHANGED <<parseVars, stepVars, mergeVars>>

(***************************************************************************)
(* Lone calls of the two pure functions, and the merge in two orders.      *)
(***************************************************************************)
\* parse_time_input(value) at clock reading now.
ParseToken ==
  /\ parse_pc = "ready"
  /\ parsed' = parse_time_input(value, now)
  /\ parse_pc' = "done"
  /\ UNCHANGED <<value, reqVars, stepVars, mergeVars>>

\* calculate_step(start_time, end_time) with the default desired_points.
ComputeStep ==
  /\ step_pc = "ready"
  /\ win_step' = calculate_step(win_start, win_end, DesiredPoints)
  /\ step_pc' = "done"
  /\ UNCHANGED <<win_start, win_end, reqVars, parseVars, mergeVars>>

\* The loop body of stats() applied to the next batch of series, once in
\* the order given (left) and once in the permuted order (right).
MergeNext ==
  /\ merged < Len(batches)
  /\ merged' = merged + 1
  /\ left' = StatsSeries(left, batches[merged + 1].label_arg,
                         batches[merged + 1].data)
  /\ right' = StatsSeries(right, batches[order[merged + 1]].label_arg,
                          batches[order[merged + 1]].data)
  /\ UNCHANGED <<batches, order, reqVars, parseVars, stepVars>>


(***************************************************************************)
(* Initial states.                                                         *)
(***************************************************************************)
Tok1min  == <<"1", "m", "i", "n">>
Tok10min == <<"1", "0", "m", "i", "n">>
Tok1hBang == <<"1", "h", "!">>
Tok1w    == <<"1", "w">>
Tok3sec  == <<"3", "s", "e", "c">>
Tok2day  == <<"2", "d", "a", "y">>
Tok1year == <<"1", "y", "e", "a", "r">>
Tok5min3h == <<"5", "m", "i", "n", " ", "3", "h">>

\* (start, end) pairs of a request: valid windows, a window that ends before
\* it starts, tokens with an unknown unit or with trailing characters.
Windows ==
  {<<Tok1min, NOW>>, <<NOW, NOW>>, <<ISO_NAIVE, NOW>>, <<Tok10min, Tok1min>>,
   <<NOW, Tok10min>>, <<Tok1min, ISO_NAIVE>>, <<Tok1w, NOW>>,
   <<NOW, Tok1w>>, <<Tok1hBang, NOW>>}

TokenAlphabet == {"1", "2", "h", "m", "i", "n", "!"}

Tokens ==
  SeqsUpTo(TokenAlphabet, MaxTokLen) \cup
  {NOW, ISO_NAIVE, ISO_OFFSET, Tok1min, Tok10min, Tok1hBang, Tok1w,
   Tok3sec, Tok2day, Tok1year, Tok5min3h}

\* The k-th sub-query of a compound query string, with blanks around it.
QueryAt(k) == IF k % 2 = 1 THEN <<" ", "a">> ELSE <<"b", " ">>

\* No query argument, the empty string, and 'a', ' a|b ', ...
QueryStrings ==
  {Absent, Arg(<< <<>> >>)} \cup
  {Arg([k \in 1..n |-> QueryAt(k)]) : n \in 1..MaxQueries}

LabelStrings == {Absent, Arg(<<"region">>)}

KeyValue ==
  [k \in {"instance", "job", "region", "zone"} |->
     CASE k = "instance" -> "a" [] k = "job" -> "b"
       [] k = "region" -> "eu" [] k = "zone" -> "z1"]

Entry(k) == [k |-> k, v |-> KeyValue[k]]

\* Every dict of at most MaxMetricKeys of the four keys, in every order.
Metrics ==
  {m \in SeqsUpTo({Entry(k) : k \in DOMAIN KeyValue}, MaxMetricKeys) :
     \A a, b \in DOMAIN m : a # b => m[a].k # m[b].k}

Series(keys, values) ==
  [metric |-> [n \in DOMAIN keys |-> Entry(keys[n])], values |-> values]

SmallBackend ==
  {Series(<<"instance", "job", "region">>, <<F(1), F(2)>>),
   Series(<<"job">>, <<NaN>>),
   Series(<<"zone", "instance">>, <<F(7)>>)}

LabelBackend == {[metric |-> m, values |-> <<F(1), F(2)>>] : m \in Metrics}

IdleRequest ==
  /\ handler = "stats" /\ pc = "off" /\ now = NowInit
  /\ rejects_single = TRUE /\ backend = {}
  /\ query_string = Absent /\ label_arg_string = Absent
  /\ start_input = NOW /\ end_input = NOW
  /\ start_time = 0 /\ end_time = 0 /\ step = [n |-> 0, unit |-> "s"]
  /\ i = 1 /\ calls = <<>> /\ resolved = <<>> /\ label_data = <<>>
  /\ plots = <<>> /\ result = <<>> /\ response = NoResponse

FreshRequest ==
  /\ pc = "start" /\ now = NowInit
  /\ start_time = 0 /\ end_time = 0 /\ step = [n |-> 0, unit |-> "s"]
  /\ i = 1 /\ calls = <<>> /\ resolved = <<>> /\ label_data = <<>>
  /\ plots = <<>> /\ result = <<>> /\ response = NoResponse

IdleParse == value = NOW /\ parsed = ValueError /\ parse_pc = "off"

IdleStep ==
  /\ win_start = 0 /\ win_end = 0 /\ win_step = [n |-> 0, unit |-> "s"]
  /\ step_pc = "off"

IdleMerge ==
  /\ batches = <<>> /\ order = <<>> /\ merged = 0
  /\ left = <<>> /\ right = <<>>

\* A request to /graph or /stats against a backend of three series.
Init ==
  /\ FreshRequest
  /\ handler \in {"graph", "stats"}
  /\ rejects_single \in BOOLEAN
  /\ backend = SmallBackend
  /\ query_string \in QueryStrings
  /\ label_arg_string \in LabelStrings
  /\ \E w \in Windows : start_input = w[1] /\ end_input = w[2]
  /\ IdleParse /\ IdleStep /\ IdleMerge

Next == Validate \/ Dispatch \/ Finish

Spec == Init /\ [][Next]_vars

\* A one-query request over the last minute against a backend that holds
\* one series for every metric dict.
InitLabel ==
  /\ FreshRequest
  /\ handler \in {"graph", "stats"}
  /\ rejects_single \in BOOLEAN
  /\ backend = LabelBackend
  /\ query_string = Arg(<< <<"a">> >>)
  /\ label_arg_string \in
       {Absent, Arg(<<"">>), Arg(<<"region">>), Arg(<<"zone">>),
        Arg(<<"job">>), Arg(<<"pod">>)}
  /\ start_input = Tok1min
  /\ end_input = NOW
  /\ IdleParse /\ IdleStep /\ IdleMerge

SpecLabel == InitLabel /\ [][Next]_vars

InitParse ==
  /\ IdleRequest /\ IdleStep /\ IdleMerge
  /\ value \in Tokens
  /\ parsed = ValueError
  /\ parse_pc = "ready"

SpecParse == InitParse /\ [][ParseToken]_vars

Durations == 0..MaxDuration \cup {100000}

InitStep ==
  /\ IdleRequest /\ IdleParse /\ IdleMerge
  /\ win_start \in {0, NowInit}
  /\ \E d \in Durations : win_end = win_start + d
  /\ win_step = [n |-> 0, unit |-> "s"]
  /\ step_pc = "ready"

SpecStep == InitStep /\ [][ComputeStep]_vars

MergeBatches ==
  {[label_arg |-> la, data |-> <<sr>>] :
     la \in {NoLabelArg, [some |-> TRUE, key |-> "region"]},
     sr \in {Series(<<"instance", "region">>, <<F(1), F(2)>>),
             Series(<<"instance">>, <<NaN, F(3)>>),
             Series(<<"job", "region">>, <<F(7)>>)}}

Orders(n) ==
  {f \in [1..n -> 1..n] : \A a, b \in 1..n : a # b => f[a] # f[b]}

InitMerge ==
  /\ IdleRequest /\ IdleParse /\ IdleStep
  /\ batches \in SeqsUpTo(MergeBatches, MaxMerged) \ SeqsUpTo(MergeBatches, 1)
  /\ order \in Orders(Len(batches))
  /\ merged = 0
  /\ left = <<>>
  /\ right = <<>>

SpecMerge == InitMerge /\ [][MergeNext]_vars

(***************************************************************************)
(* Properties.                                                             *)
(***************************************************************************)
Range(s) == {s[n] : n \in DOMAIN s}
Labels(ld) == {ld[n].label : n \in DOMAIN ld}
ValuesOf(ld, label) == ld[CHOOSE n \in DOMAIN ld : ld[n].label = label].values
Reserved == {"instance", "job"}
Done == pc = "done"
Raised == \E k \in DOMAIN calls : calls[k].outcome = "raise"
SomeEmpty == \E k \in DOMAIN calls : calls[k].outcome = "empty"

\* Rule 1 of the label precedence: the explicit key is given and is a key
\* of the metric dict.
ExplicitRule(metric, la) ==
  la.some /\ \E n \in DOMAIN metric : metric[n].k = la.key /\ la.key # ""

\* The precedence of the charting pathway: explicit key, else the first key
\* outside {instance, job}, else "Unknown".
ChartRule(metric, la, label) ==
  LET free == {n \in DOMAIN metric : metric[n].k \notin Reserved} IN
  IF ExplicitRule(metric, la)
  THEN \E n \in DOMAIN metric : metric[n].k = la.key /\ label = metric[n].v
  ELSE IF free # {}
  THEN label = metric[CHOOSE n \in free : \A m \in free : n <= m].v
  ELSE label = "Unknown"

\* The precedence of the statistics pathway: explicit key, else the value
\* of instance, else the value of job, else "Unknown".
StatsRule(metric, la, label) ==
  IF ExplicitRule(metric, la)
  THEN \E n \in DOMAIN metric : metric[n].k = la.key /\ label = metric[n].v
  ELSE IF \E n \in DOMAIN metric : metric[n].k = "instance"
  THEN \E n \in DOMAIN metric : metric[n].k = "instance" /\ label = metric[n].v
  ELSE IF \E n \in DOMAIN metric : metric[n].k = "job"
  THEN \E n \in DOMAIN metric : metric[n].k = "job" /\ label = metric[n].v
  ELSE label = "Unknown"

\* C1, as stated: on /graph and on /stats alike every series gets the label
\* of the explicit key if given and present, else of the first key that is
\* not instance or job, else "Unknown".
C1_SameRuleOnBothRoutes ==
  \A n \in DOMAIN resolved :
     ChartRule(resolved[n].metric, resolved[n].label_arg, resolved[n].label)

\* C1, amended: /graph follows that precedence; /stats falls back to the
\* value of instance, then of job, then "Unknown".
C1_LabelPerRoute ==
  \A n \in DOMAIN resolved :
     LET r == resolved[n] IN
     IF r.route = "graph" THEN ChartRule(r.metric, r.label_arg, r.label)
     ELSE StatsRule(r.metric, r.label_arg, r.label)

\* C1 witness: /stats has labelled {instance, job, region}, without an
\* explicit key, "a".
C1_Witness ==
  \E n \in DOMAIN resolved :
     LET r == resolved[n] IN
     /\ Len(r.metric) = 3
     /\ r.metric[1].k = "instance" /\ r.metric[2].k = "job"
     /\ r.metric[3].k = "region"
     /\ ~r.label_arg.some
     /\ r.route = "stats"
     /\ r.label = "a"

\* The whole token is <integer><unit> with a unit of the grammar.
WellFormedRelative(tok) ==
  \E k \in 1..(Len(tok) - 1) :
     /\ \A n \in 1..k : tok[n] \in Digits
     /\ SubSeq(tok, k + 1, Len(tok)) \in {SEC, MIN, HOUR, DAY, YEAR}

\* Neither 'now', nor an absolute date-time, nor a relative token.
Malformed(tok) ==
  tok # NOW /\ ~FromIsoFormat(tok).ok /\ ~WellFormedRelative(tok)

WellFormedWindow == ~Malformed(start_input) /\ ~Malformed(end_input)

\* C2: a request with a malformed start or end token makes no executor call
\* and is answered with an error object and a 4xx status.
C2_MalformedIsClientError ==
  (/\ Truthy(query_string, <<>>)
   /\ Malformed(start_input) \/ Malformed(end_input))
  => /\ calls = <<>>
     /\ Done => response.kind = "error" /\ response.status \in 400..499

\* C3: a window whose start is later than its end is answered with a 400
\* error and reaches no executor call; every call made carries a window
\* with start <= end.
C3_InvalidRangeNeverDispatched ==
  /\ (pc # "start" /\ start_time > end_time)
       => Done /\ response = Respond(400, "error") /\ calls = <<>>
  /\ calls # <<>> => start_time <= end_time
  /\ \A k \in DOMAIN calls :
        /\ calls[k].start_time <= calls[k].end_time
        /\ calls[k].start_time = start_time /\ calls[k].end_time = end_time

\* C3 witness: start=now, end=10min was answered 400.
C3_Witness ==
  /\ start_input = NOW /\ end_input = Tok10min
  /\ Done /\ response.status = 400 /\ start_time > end_time

\* C4, as stated: an executor error for one sub-query is skipped like an
\* empty result; the other sub-queries are dispatched and the answer is 200.
C4_ErrorIsSkipped ==
  (Done /\ Raised) => response.status = 200 /\ Len(calls) = Len(queries)

\* C4, amended: an executor error ends the request at once: the failing call
\* is the last one made and the answer is an error object with status 500.
C4_ErrorAbortsRequest ==
  \A k \in DOMAIN calls :
     calls[k].outcome = "raise"
       => k = Len(calls) /\ Done /\ response = Respond(500, "error")
          /\ result = <<>>

\* C4 witness: the second of two sub-queries raised after the first had
\* returned data.
C4_Witness ==
  /\ Len(queries) = 2 /\ Len(calls) = 2
  /\ calls[1].outcome = "data" /\ calls[2].outcome = "raise"
  /\ Done

NonNaNCount(values) == Len(DropNaN(values))

BagOfSeq(s) == [v \in Range(s) |-> Occurrences(v, s)]

\* C6: merging the same batches of series in a permuted order gives the
\* same labels and, per label, the same multiset of values.
C6_MergeCommutes ==
  merged = Len(batches)
  => /\ Labels(left) = Labels(right)
     /\ \A l \in Labels(left) :
          BagOfSeq(ValuesOf(left, l)) = BagOfSeq(ValuesOf(right, l))

\* C6 witness: a permuted merge ended with a label whose values came in a
\* different order.
C6_Witness ==
  /\ merged = Len(batches) /\ merged >= 2
  /\ \E l \in Labels(left) : ValuesOf(left, l) # ValuesOf(right, l)

\* C7: a label with exactly one non-NaN value v is in the /stats answer,
\* with stdev 0, variance 0 and mode v.
C7_SinglePointReported ==
  (handler = "stats" /\ Done /\ response.kind = "json")
  => \A n \in DOMAIN label_data :
        NonNaNCount(label_data[n].values) = 1
        => \E m \in DOMAIN result :
              /\ result[m].label = label_data[n].label
              /\ result[m].stats.stdev.sqrt_of = Zero
              /\ result[m].stats.variance = Zero
              /\ result[m].stats.mode =
                   [some |-> TRUE, x |-> DropNaN(label_data[n].values)[1]]

\* C8: a token that is neither 'now' nor an absolute date-time yields an
\* instant only if the whole token is <integer><unit>.
C8_NoPartialMatch ==
  (parse_pc = "done" /\ value # NOW /\ ~FromIsoFormat(value).ok)
  => (parsed.ok <=> WellFormedRelative(value))

\* C9: for a window of D >= 0 whole seconds the step is max(D/100, 2)
\* truncated: never below 2s, 2s for D < 300, floor(D/100) otherwise.
C9_StepIsTruncatedMax ==
  step_pc = "done"
  => LET D == win_end - win_start IN
     /\ win_step.unit = "s"
     /\ win_step.n >= 2
     /\ D < 300 => win_step.n = 2
     /\ D >= 300 => win_step.n = D \div 100
     /\ D = 50 => win_step.n = 2
     /\ D = 100000 => win_step.n = 1000

\* C9 witness: the step of a 100000 s window was computed as 1000s.
C9_Witness ==
  step_pc = "done" /\ win_end - win_start = 100000 /\ win_step.n = 1000

\* The mode when exactly one value has the highest count, no mode otherwise.
UniqueMode(data) ==
  LET top == {x \in Range(data) :
                \A y \in Range(data) :
                   Occurrences(y, data) <= Occurrences(x, data)}
  IN  IF Cardinality(top) = 1
      THEN [some |-> TRUE, x |-> CHOOSE x \in top : TRUE]
      ELSE [some |-> FALSE, x |-> 0]

\* C10: the reported mode is the single most frequent value, and is absent
\* when two or more values share the highest count.
C10_ModeIsUniqueOrAbsent ==
  (handler = "stats" /\ Done /\ response.kind = "json")
  => \A m \in DOMAIN result :
        LET data == DropNaN(ValuesOf(label_data, result[m].label)) IN
        IF UniqueMode(data).some
        THEN result[m].stats.mode = UniqueMode(data)
        ELSE ~result[m].stats.mode.some

====
